---- MODULE Spec2Model ----
(***************************************************************************)
(* A model of the dependency graph of lighthouse-core                      *)
(* (lib/dependency-graph/base-node.js) and of the first-contentful-paint   *)
(* graph builder that is layered on it.                                    *)
(*                                                                         *)
(* Node objects live in a heap: an object is an address (a number), and    *)
(* heap[o] holds the fields of BaseNode.  The nodes under test are the     *)
(* addresses 1..NumNodes; cloning allocates fresh addresses above them.    *)
(* Edge lists are sequences of addresses, in the order of the pushes.      *)
(***************************************************************************)
EXTENDS Integers, Sequences, FiniteSets, TLC

\* Number of node objects constructed before any operation runs.
NumNodes == 3
\* Cap on the number of dependency edges while calls mutate the graph.
MaxEdges == 3
\* Longest sequence of addDependency calls that builds a graph to be queried.
MaxInsertions == 4

Nodes == 1..NumNodes

\* The value of a JavaScript lookup that finds nothing (Map.get, Array.find).
Undefined == 0

VARIABLES heap, ret

vars == <<heap, ret>>

----------------------------------------------------------------------------
(* JavaScript array primitives used by base-node.js                        *)

\* Array.prototype.includes
Includes(s, x) == \E i \in 1..Len(s) : s[i] = x

\* Array.prototype.indexOf, zero-based, -1 when absent
IndexOf(s, x) ==
  IF Includes(s, x)
    THEN (CHOOSE i \in 1..Len(s) : s[i] = x /\ \A j \in 1..(i - 1) : s[j] # x) - 1
    ELSE -1

\* Array.prototype.splice(start, 1): a negative start counts from the end
Splice1(s, start) ==
  LET from == IF start < 0 THEN (IF Len(s) + start < 0 THEN 0 ELSE Len(s) + start)
                           ELSE (IF start > Len(s) THEN Len(s) ELSE start)
  IN  [i \in 1..(IF from < Len(s) THEN Len(s) - 1 ELSE Len(s)) |->
         IF i <= from THEN s[i] ELSE s[i + 1]]

\* The elements of a sequence, as a set
Range(s) == {s[i] : i \in 1..Len(s)}

----------------------------------------------------------------------------
(* BaseNode                                                                *)

\* constructor(id)
BaseNode(id) ==
  [id |-> id, isMainDocument |-> FALSE, dependents |-> <<>>, dependencies |-> <<>>]

\* The heap cut down to the nodes under test (clones of an earlier call dropped)
Orig(H) == [o \in Nodes |-> H[o]]

NumEdges(H) ==
  LET RECURSIVE Sum(_)
      Sum(n) == IF n = 0 THEN 0 ELSE Len(H[n].dependencies) + Sum(n - 1)
  IN  Sum(NumNodes)

\* A faulty getRootNode that takes one step only (`if` for `while`)
getRootNode_OneStep(H, self) ==
  IF Len(H[self].dependencies) = 0 THEN self ELSE H[self].dependencies[1]

\* getRootNode: follow the first dependency until a node has none.  The walk is
\* deterministic, so more steps than there are objects means it never ends:
\* the result is then Undefined.
getRootNode(H, self) ==
  LET RECURSIVE Walk(_, _)
      Walk(rootNode, fuel) ==
        IF Len(H[rootNode].dependencies) = 0 THEN rootNode
        ELSE IF fuel = 0 THEN Undefined
        ELSE Walk(H[rootNode].dependencies[1], fuel - 1)
  IN  Walk(self, Cardinality(DOMAIN H))

\* A faulty addDependency that records the edge on one side only
addDependency_OneSided(H, self, node) ==
  IF Includes(H[self].dependencies, node) THEN H
  ELSE [H EXCEPT ![self].dependencies = Append(@, node)]

\* A faulty addDependency without the check for an existing edge
addDependency_Unchecked(H, self, node) ==
  LET H1 == [H EXCEPT ![node].dependents = Append(@, self)]
  IN  [H1 EXCEPT ![self].dependencies = Append(@, node)]

\* addDependency, on a heap: self depends on node
addDependency(H, self, node) ==
  IF Includes(H[self].dependencies, node) THEN H
  ELSE LET H1 == [H EXCEPT ![node].dependents = Append(@, self)]
       IN  [H1 EXCEPT ![self].dependencies = Append(@, node)]

\* addDependent delegates to addDependency with the roles swapped
addDependent(H, self, node) == addDependency(H, node, self)

\* A faulty removeDependency that drops the first dependency instead of node
removeDependency_First(H, self, node) ==
  IF ~Includes(H[self].dependencies, node) THEN H
  ELSE LET thisIndex == IndexOf(H[node].dependents, self)
           H1 == [H EXCEPT ![node].dependents = Splice1(@, thisIndex)]
       IN  [H1 EXCEPT ![self].dependencies = Splice1(@, 0)]

\* removeDependency, on a heap
removeDependency(H, self, node) ==
  IF ~Includes(H[self].dependencies, node) THEN H
  ELSE LET thisIndex == IndexOf(H[node].dependents, self)
           H1 == [H EXCEPT ![node].dependents = Splice1(@, thisIndex)]
       IN  [H1 EXCEPT ![self].dependencies =
                         Splice1(@, IndexOf(H1[self].dependencies, node))]

\* removeDependent delegates to removeDependency with the roles swapped
removeDependent(H, self, node) == removeDependency(H, node, self)

\* A faulty removeAllDependencies that iterates over the live list instead of
\* a snapshot of it
removeAllDependencies_Live(H, self) ==
  LET RECURSIVE Loop(_, _)
      Loop(G, i) == IF i > Len(G[self].dependencies) THEN G
                    ELSE Loop(removeDependency(G, self, G[self].dependencies[i]), i + 1)
  IN  Loop(H, 1)

\* removeAllDependencies: removeDependency for each entry of a snapshot
removeAllDependencies(H, self) ==
  LET snapshot == H[self].dependencies
      RECURSIVE Loop(_, _)
      Loop(G, i) == IF i > Len(snapshot) THEN G
                    ELSE Loop(removeDependency(G, self, snapshot[i]), i + 1)
  IN  Loop(H, 1)

----------------------------------------------------------------------------
(* traverse                                                                *)

\* The two getNextNodes functions the code passes: the default
\* (node => node.getDependents()) and node => node.getDependencies().
NextNodeFns == {"dependents", "dependencies"}

getNextNodes(H, fn, node) ==
  IF fn = "dependents" THEN H[node].dependents ELSE H[node].dependencies

\* A faulty traverse that marks a node visited when it is taken from the queue
\* instead of when it is put on it
traverse_LateMark(H, self, fn) ==
  LET RECURSIVE Push(_, _, _, _, _)
      Push(nexts, i, traversalPath, visited, queue) ==
        IF i > Len(nexts) THEN [visited |-> visited, queue |-> queue]
        ELSE IF H[nexts[i]].id \in visited
          THEN Push(nexts, i + 1, traversalPath, visited, queue)
          ELSE Push(nexts, i + 1, traversalPath, visited,
                    Append(queue, <<nexts[i]>> \o traversalPath))
      RECURSIVE Loop(_, _, _)
      Loop(visited, queue, calls) ==
        IF Len(queue) = 0 THEN calls
        ELSE LET traversalPath == Head(queue)
                 node == traversalPath[1]
             IN  IF H[node].id \in visited /\ Len(calls) > 0
                   THEN Loop(visited, Tail(queue), Append(calls, traversalPath))
                   ELSE LET after == Push(getNextNodes(H, fn, node), 1, traversalPath,
                                          visited \cup {H[node].id}, Tail(queue))
                        IN  Loop(after.visited, after.queue,
                                 Append(calls, traversalPath))
  IN  Loop({H[self].id}, <<(<<self>>)>>, <<>>)

\* A faulty traverse that queues [nextNode, this] instead of
\* [nextNode, ...traversalPath]
traverse_PathFromStart(H, self, fn) ==
  LET RECURSIVE Push(_, _, _, _, _)
      Push(nexts, i, traversalPath, visited, queue) ==
        IF i > Len(nexts) THEN [visited |-> visited, queue |-> queue]
        ELSE IF H[nexts[i]].id \in visited
          THEN Push(nexts, i + 1, traversalPath, visited, queue)
          ELSE Push(nexts, i + 1, traversalPath, visited \cup {H[nexts[i]].id},
                    Append(queue, <<nexts[i], self>>))
      RECURSIVE Loop(_, _, _)
      Loop(visited, queue, calls) ==
        IF Len(queue) = 0 THEN calls
        ELSE LET traversalPath == Head(queue)
                 node == traversalPath[1]
                 after == Push(getNextNodes(H, fn, node), 1, traversalPath,
                               visited, Tail(queue))
             IN  Loop(after.visited, after.queue, Append(calls, traversalPath))
  IN  Loop({H[self].id}, <<(<<self>>)>>, <<>>)

\* traverse(callback, getNextNodes): the breadth-first loop.  The result is the
\* sequence of the callback's invocations, each given by its traversalPath
\* (the node called back is traversalPath[1]).
traverse(H, self, fn) ==
  LET RECURSIVE Push(_, _, _, _, _)
      \* the for loop over getNextNodes(node), from index i on
      Push(nexts, i, traversalPath, visited, queue) ==
        IF i > Len(nexts) THEN [visited |-> visited, queue |-> queue]
        ELSE IF H[nexts[i]].id \in visited
          THEN Push(nexts, i + 1, traversalPath, visited, queue)
          ELSE Push(nexts, i + 1, traversalPath, visited \cup {H[nexts[i]].id},
                    Append(queue, <<nexts[i]>> \o traversalPath))
      RECURSIVE Loop(_, _, _)
      Loop(visited, queue, calls) ==
        IF Len(queue) = 0 THEN calls
        ELSE LET traversalPath == Head(queue)
                 node == traversalPath[1]
                 after == Push(getNextNodes(H, fn, node), 1, traversalPath,
                               visited, Tail(queue))
             IN  Loop(after.visited, after.queue, Append(calls, traversalPath))
  IN  Loop({H[self].id}, <<(<<self>>)>>, <<>>)

\* The nodes a traversal calls back, in call order
Visits(calls) == [i \in 1..Len(calls) |-> calls[i][1]]

----------------------------------------------------------------------------
(* hasCycle                                                                *)

Directions == {"dependents", "dependencies", "both"}

\* A faulty hasCycle that never clears the backtracked nodes from currentPath
hasCycleIn_Untrimmed(H, node, direction) ==
  LET RECURSIVE Explore(_, _, _, _, _)
      \* the for loop over nodesToExplore, from index i on
      Explore(nodesToExplore, i, toVisit, depthAdded, depth) ==
        IF i > Len(nodesToExplore) THEN [toVisit |-> toVisit, depthAdded |-> depthAdded]
        ELSE IF Includes(toVisit, nodesToExplore[i])
          THEN Explore(nodesToExplore, i + 1, toVisit, depthAdded, depth)
          ELSE Explore(nodesToExplore, i + 1, Append(toVisit, nodesToExplore[i]),
                       [depthAdded EXCEPT ![nodesToExplore[i]] = depth], depth)
      RECURSIVE Loop(_, _, _, _)
      Loop(visited, currentPath, toVisit, depthAdded) ==
        IF Len(toVisit) = 0 THEN FALSE
        ELSE LET currentNode == toVisit[Len(toVisit)]
                 popped == SubSeq(toVisit, 1, Len(toVisit) - 1)
             IN  IF Includes(currentPath, currentNode) THEN TRUE
                 ELSE IF currentNode \in visited
                   THEN Loop(visited, currentPath, popped, depthAdded)
                 ELSE LET trimmed == currentPath
                          path == Append(trimmed, currentNode)
                          nodesToExplore == IF direction = "dependents"
                                              THEN H[currentNode].dependents
                                              ELSE H[currentNode].dependencies
                          after == Explore(nodesToExplore, 1, popped, depthAdded,
                                           Len(path))
                      IN  Loop(visited \cup {currentNode}, path,
                               after.toVisit, after.depthAdded)
  IN  Loop({}, <<>>, <<node>>, [o \in DOMAIN H |-> 0])

\* hasCycle(node, direction) for one of the two single directions
hasCycleIn(H, node, direction) ==
  LET RECURSIVE Explore(_, _, _, _, _)
      \* the for loop over nodesToExplore, from index i on
      Explore(nodesToExplore, i, toVisit, depthAdded, depth) ==
        IF i > Len(nodesToExplore) THEN [toVisit |-> toVisit, depthAdded |-> depthAdded]
        ELSE IF Includes(toVisit, nodesToExplore[i])
          THEN Explore(nodesToExplore, i + 1, toVisit, depthAdded, depth)
          ELSE Explore(nodesToExplore, i + 1, Append(toVisit, nodesToExplore[i]),
                       [depthAdded EXCEPT ![nodesToExplore[i]] = depth], depth)
      RECURSIVE Loop(_, _, _, _)
      Loop(visited, currentPath, toVisit, depthAdded) ==
        IF Len(toVisit) = 0 THEN FALSE
        ELSE LET currentNode == toVisit[Len(toVisit)]
                 popped == SubSeq(toVisit, 1, Len(toVisit) - 1)
             IN  IF Includes(currentPath, currentNode) THEN TRUE
                 ELSE IF currentNode \in visited
                   THEN Loop(visited, currentPath, popped, depthAdded)
                 ELSE LET trimmed ==
                            IF Len(currentPath) > depthAdded[currentNode]
                              THEN SubSeq(currentPath, 1, depthAdded[currentNode])
                              ELSE currentPath
                          path == Append(trimmed, currentNode)
                          nodesToExplore == IF direction = "dependents"
                                              THEN H[currentNode].dependents
                                              ELSE H[currentNode].dependencies
                          after == Explore(nodesToExplore, 1, popped, depthAdded,
                                           Len(path))
                      IN  Loop(visited \cup {currentNode}, path,
                               after.toVisit, after.depthAdded)
  IN  Loop({}, <<>>, <<node>>, [o \in DOMAIN H |-> 0])

\* static hasCycle(node, direction = 'both')
hasCycle(H, node, direction) ==
  IF direction = "both"
    THEN hasCycleIn(H, node, "dependents") \/ hasCycleIn(H, node, "dependencies")
    ELSE hasCycleIn(H, node, direction)

----------------------------------------------------------------------------
(* Cloning                                                                 *)

\* setIsMainDocument(value)
setIsMainDocument(H, self, value) == [H EXCEPT ![self].isMainDocument = value]

\* new: the address of the object an allocation on heap H creates
NewAddress(H) == Cardinality(DOMAIN H) + 1

\* A faulty cloneWithoutRelationships that forgets the main-document flag
cloneWithoutRelationships_NoFlag(H, self) ==
  LET node == NewAddress(H)
  IN  [heap |-> H @@ (node :> BaseNode(H[self].id)), node |-> node]

\* cloneWithoutRelationships: a new BaseNode with the id and the main-document
\* flag of self; heap is the heap with the new object, node its address.
cloneWithoutRelationships(H, self) ==
  LET node == NewAddress(H)
      H1 == H @@ (node :> BaseNode(H[self].id))
  IN  [heap |-> setIsMainDocument(H1, node, H[self].isMainDocument), node |-> node]

\* A predicate argument: absent (given = FALSE), or a function of the node that
\* holds of the nodes whose id is in ids.
NoPredicate == [given |-> FALSE, ids |-> {}]

Predicates == {NoPredicate} \cup {[given |-> TRUE, ids |-> S] : S \in SUBSET Nodes}

\* A faulty first traversal that walks down the dependents of a node that
\* passes the predicate instead of up its dependencies
idsToInclude_Down(H, rootNode, predicate) ==
  LET order == Visits(traverse(H, rootNode, "dependents"))
      RECURSIVE Loop(_, _)
      Loop(i, ids) ==
        IF i > Len(order) THEN ids
        ELSE IF H[order[i]].id \notin predicate.ids THEN Loop(i + 1, ids)
        ELSE LET up == Visits(traverse(H, order[i], "dependents"))
             IN  Loop(i + 1, ids \cup {H[up[j]].id : j \in 1..Len(up)})
  IN  Loop(1, {})

\* First traversal of cloneWithRelationships: for every node from rootNode
\* down the dependents that passes the predicate, the ids met walking back up
\* its dependencies.
idsToInclude(H, rootNode, predicate) ==
  LET order == Visits(traverse(H, rootNode, "dependents"))
      RECURSIVE Loop(_, _)
      Loop(i, ids) ==
        IF i > Len(order) THEN ids
        ELSE IF H[order[i]].id \notin predicate.ids THEN Loop(i + 1, ids)
        ELSE LET up == Visits(traverse(H, order[i], "dependencies"))
             IN  Loop(i + 1, ids \cup {H[up[j]].id : j \in 1..Len(up)})
  IN  Loop(1, {})

\* shouldIncludeNode, given the inclusion set
shouldIncludeNode(H, predicate, ids, node) ==
  ~predicate.given \/ H[node].id \in ids

\* Second traversal: clone every included node; idToNodeMap maps its id to the
\* clone (a function whose domain is the ids set so far).
cloneNodes(H, rootNode, predicate, ids) ==
  LET order == Visits(traverse(H, rootNode, "dependents"))
      RECURSIVE Loop(_, _, _)
      Loop(i, G, idToNodeMap) ==
        IF i > Len(order) THEN [heap |-> G, idToNodeMap |-> idToNodeMap]
        ELSE IF ~shouldIncludeNode(G, predicate, ids, order[i])
          THEN Loop(i + 1, G, idToNodeMap)
        ELSE LET c == cloneWithoutRelationships(G, order[i])
                 clonedId == c.heap[c.node].id
             IN  Loop(i + 1, c.heap,
                      [k \in DOMAIN idToNodeMap \cup {clonedId} |->
                         IF k = clonedId THEN c.node ELSE idToNodeMap[k]])
  IN  Loop(1, H, <<>>)

\* Map.prototype.get
MapGet(map, key) == IF key \in DOMAIN map THEN map[key] ELSE Undefined

\* A faulty re-wiring that adds each edge the wrong way round
rewireNode_Reversed(G, idToNodeMap, originalNode, j) ==
  LET clonedNode == MapGet(idToNodeMap, G[originalNode].id)
      dependencies == G[originalNode].dependencies
      RECURSIVE Loop(_, _)
      Loop(k, K) ==
        IF k > Len(dependencies) THEN [heap |-> K, threw |-> FALSE]
        ELSE LET clonedDependency == MapGet(idToNodeMap, K[dependencies[k]].id)
             IN  IF clonedDependency = Undefined THEN [heap |-> K, threw |-> TRUE]
                 ELSE Loop(k + 1, addDependency(K, clonedDependency, clonedNode))
  IN  Loop(j, G)

\* A faulty re-wiring that makes the clone depend on the original dependency
rewireNode_Original(G, idToNodeMap, originalNode, j) ==
  LET clonedNode == MapGet(idToNodeMap, G[originalNode].id)
      dependencies == G[originalNode].dependencies
      RECURSIVE Loop(_, _)
      Loop(k, K) ==
        IF k > Len(dependencies) THEN [heap |-> K, threw |-> FALSE]
        ELSE LET clonedDependency == MapGet(idToNodeMap, K[dependencies[k]].id)
             IN  IF clonedDependency = Undefined THEN [heap |-> K, threw |-> TRUE]
                 ELSE Loop(k + 1, addDependency(K, clonedNode, dependencies[k]))
  IN  Loop(j, G)

\* The loop `for (const dependency of originalNode._dependencies)` of the third
\* traversal, from index j on.  clonedNode.addDependency(undefined) reads
\* undefined._dependents and throws a TypeError.
rewireNode(G, idToNodeMap, originalNode, j) ==
  LET clonedNode == MapGet(idToNodeMap, G[originalNode].id)
      dependencies == G[originalNode].dependencies
      RECURSIVE Loop(_, _)
      Loop(k, K) ==
        IF k > Len(dependencies) THEN [heap |-> K, threw |-> FALSE]
        ELSE LET clonedDependency == MapGet(idToNodeMap, K[dependencies[k]].id)
             IN  IF clonedDependency = Undefined THEN [heap |-> K, threw |-> TRUE]
                 ELSE Loop(k + 1, addDependency(K, clonedNode, clonedDependency))
  IN  Loop(j, G)

\* Third traversal: mirror the dependencies of every included node between
\* the clones.
rewire(H, G0, rootNode, predicate, ids, idToNodeMap) ==
  LET order == Visits(traverse(H, rootNode, "dependents"))
      RECURSIVE Loop(_, _)
      Loop(i, G) ==
        IF i > Len(order) THEN [heap |-> G, threw |-> FALSE]
        ELSE IF ~shouldIncludeNode(G, predicate, ids, order[i]) THEN Loop(i + 1, G)
        ELSE LET r == rewireNode(G, idToNodeMap, order[i], 1)
             IN  IF r.threw THEN r ELSE Loop(i + 1, r.heap)
  IN  Loop(1, G0)

\* The end of cloneWithRelationships: a TypeError of the third traversal
\* passes to the caller; the call throws if the calling node has no clone, and
\* returns that clone otherwise.
cloneResult(H, self, idToNodeMap, wired) ==
  IF wired.threw
    THEN [status |-> "TypeError", heap |-> wired.heap, value |-> Undefined]
  ELSE IF H[self].id \notin DOMAIN idToNodeMap
    THEN [status |-> "Cloned graph missing node", heap |-> wired.heap,
          value |-> Undefined]
  ELSE [status |-> "returned", heap |-> wired.heap,
        value |-> idToNodeMap[H[self].id]]

\* cloneWithRelationships from the third traversal on, cloned being the
\* outcome of the second
cloneWired(H, self, rootNode, predicate, ids, cloned) ==
  cloneResult(H, self, cloned.idToNodeMap,
              rewire(H, cloned.heap, rootNode, predicate, ids, cloned.idToNodeMap))

\* cloneWithRelationships from the second traversal on, ids being the
\* inclusion set
cloneIncluded(H, self, rootNode, predicate, ids) ==
  cloneWired(H, self, rootNode, predicate, ids,
             cloneNodes(H, rootNode, predicate, ids))

\* cloneWithRelationships once the root is known; a root of Undefined means
\* that getRootNode never returns
cloneFrom(H, self, predicate, rootNode) ==
  IF rootNode = Undefined
    THEN [status |-> "hang", heap |-> H, value |-> Undefined]
    ELSE cloneIncluded(H, self, rootNode, predicate,
                       IF predicate.given THEN idsToInclude(H, rootNode, predicate)
                                          ELSE {})

\* cloneWithRelationships(predicate).  status is "returned" (value is the
\* clone), the message of the Error thrown, "TypeError", or "hang" (the call
\* never returns).
cloneWithRelationships(H, self, predicate) ==
  cloneFrom(H, self, predicate, getRootNode(H, self))

----------------------------------------------------------------------------
(* LanternFirstContentfulPaint.  The typed nodes (NetworkNode, CPUNode) are *)
(* given by what the classifier reads of them: data[id] is the record of    *)
(* the node with that id, fixed at construction.                            *)

NETWORK == "network"
CPU == "cpu"

\* A network node: its request ends at endTime
NetworkNode(endTime, url, priority, initiatorType) ==
  [type |-> NETWORK, startTime |-> 0, endTime |-> endTime, url |-> url,
   hasRenderBlockingPriority |-> priority, initiatorType |-> initiatorType,
   evaluateScriptFor |-> {}, didPerformLayout |-> FALSE, childEvents |-> <<>>]

\* A CPU node: a task starting at startTime; evaluateScriptFor holds the urls u
\* for which isEvaluateScriptFor({u}) is true
CPUNode(startTime, evaluateScriptFor, didPerformLayout, childEvents) ==
  [type |-> CPU, startTime |-> startTime, endTime |-> startTime + 1, url |-> "",
   hasRenderBlockingPriority |-> FALSE, initiatorType |-> "",
   evaluateScriptFor |-> evaluateScriptFor, didPerformLayout |-> didPerformLayout,
   childEvents |-> childEvents]

\* The filters getOptimisticGraph and getPessimisticGraph pass
NetworkFilters == {"optimistic", "pessimistic"}

networkFilter(name, d) ==
  IF name = "optimistic"
    THEN d.hasRenderBlockingPriority /\ d.initiatorType # "script"
    ELSE d.hasRenderBlockingPriority

\* An optional cpuFilter argument, like a predicate: absent, or true of the
\* nodes whose id is in ids
NoCpuFilter == [given |-> FALSE, ids |-> {}]

\* cpuNodes.sort((a, b) => a.startTime - b.startTime): a stable sort
sortByStartTime(data, cpuNodes) ==
  LET RECURSIVE Insert(_, _)
      Insert(sorted, n) ==
        IF Len(sorted) = 0 THEN <<n>>
        ELSE IF data[sorted[Len(sorted)]].startTime <= data[n].startTime
          THEN Append(sorted, n)
          ELSE Append(Insert(SubSeq(sorted, 1, Len(sorted) - 1), n),
                      sorted[Len(sorted)])
      RECURSIVE Loop(_, _)
      Loop(i, sorted) == IF i > Len(cpuNodes) THEN sorted
                         ELSE Loop(i + 1, Insert(sorted, cpuNodes[i]))
  IN  Loop(1, <<>>)

\* What Array.prototype.find returns when hits are the elements that pass its
\* test, in order: the first of them, or Undefined
Find(hits) == IF Len(hits) = 0 THEN Undefined ELSE hits[1]

\* LanternMetric.getScriptUrls(graph, condition): the urls of the network nodes
\* that graph.traverse reaches and that pass the condition; passing holds the
\* nodes of which the condition is true
getScriptUrls(H, data, graph, passing) ==
  LET order == Visits(traverse(H, graph, "dependents"))
  IN  {data[H[order[i]].id].url :
         i \in {j \in 1..Len(order) :
                  /\ data[H[order[j]].id].type = NETWORK
                  /\ order[j] \in passing}}

\* An entry of the Set blockingCpuNodeIds: an id (a string in the code) or a
\* node object; the two never compare equal.
IdEntry(id) == <<"id", id>>
NodeEntry(node) == <<"node", node>>

\* The CPU nodes that graph.traverse reaches and that start by fcpTs, sorted
earlyCpuNodes(H, data, graph, fcpTs) ==
  LET IsEarlyCpu(n) == data[H[n].id].type = CPU /\ data[H[n].id].startTime <= fcpTs
  IN  sortByStartTime([n \in DOMAIN H |-> data[H[n].id]],
                      SelectSeq(Visits(traverse(H, graph, "dependents")), IsEarlyCpu))

\* The urls of the scripts that finished loading by fcpTs and pass the filter
possiblyRenderBlocking(H, data, graph, fcpTs, filterName) ==
  LET Possibly(n) == /\ data[H[n].id].endTime <= fcpTs
                     /\ networkFilter(filterName, data[H[n].id])
  IN  getScriptUrls(H, data, graph, {n \in DOMAIN H : Possibly(n)})

\* getBlockingCpuData from the loop over possiblyRenderBlockingScriptUrls on
blockingCpuData(H, data, cpuNodes, possiblyRenderBlockingScriptUrls, cpuFilter) ==
  LET \* the first cpuNode that evaluates url, or Undefined
      Evaluator(url) ==
        LET Evaluates(n) == url \in data[H[n].id].evaluateScriptFor
        IN  Find(SelectSeq(cpuNodes, Evaluates))
      DidLayout(n) == data[H[n].id].didPerformLayout
      HasPaint(n) == Includes(data[H[n].id].childEvents, "Paint")
      HasParse(n) == Includes(data[H[n].id].childEvents, "ParseHTML")
      Firsts == {Find(SelectSeq(cpuNodes, DidLayout)),
                 Find(SelectSeq(cpuNodes, HasPaint)),
                 Find(SelectSeq(cpuNodes, HasParse))} \ {Undefined}
      CpuFilter(n) == H[n].id \in cpuFilter.ids
      filtered == IF cpuFilter.given THEN Range(SelectSeq(cpuNodes, CpuFilter)) ELSE {}
  IN  [possiblyRenderBlockingScriptUrls |-> possiblyRenderBlockingScriptUrls,
       actuallyRenderBlockingScriptUrls |->
         {url \in possiblyRenderBlockingScriptUrls : Evaluator(url) # Undefined},
       blockingCpuNodeIds |->
         {NodeEntry(Evaluator(url)) :
            url \in {u \in possiblyRenderBlockingScriptUrls : Evaluator(u) # Undefined}}
         \cup {IdEntry(H[n].id) : n \in Firsts \cup filtered}]

\* getBlockingCpuData(graph, fcpTs, networkFilter, cpuFilter)
getBlockingCpuData(H, data, graph, fcpTs, filterName, cpuFilter) ==
  blockingCpuData(H, data, earlyCpuNodes(H, data, graph, fcpTs),
                  possiblyRenderBlocking(H, data, graph, fcpTs, filterName),
                  cpuFilter)

\* A faulty predicate that does not look at the end time of a network node
firstPaintPredicate_NoEndTime(H, data, fcpTs, blocking, node) ==
  LET d == data[H[node].id]
  IN  IF d.type = NETWORK
        THEN IF d.url \in blocking.possiblyRenderBlockingScriptUrls
               THEN d.url \in blocking.actuallyRenderBlockingScriptUrls
             ELSE d.hasRenderBlockingPriority
        ELSE IdEntry(H[node].id) \in blocking.blockingCpuNodeIds

\* The predicate getFirstPaintBasedGraph hands to cloneWithRelationships
firstPaintPredicate(H, data, fcpTs, blocking, node) ==
  LET d == data[H[node].id]
  IN  IF d.type = NETWORK
        THEN IF d.endTime > fcpTs /\ ~H[node].isMainDocument THEN FALSE
             ELSE IF d.url \in blocking.possiblyRenderBlockingScriptUrls
               THEN d.url \in blocking.actuallyRenderBlockingScriptUrls
             ELSE d.hasRenderBlockingPriority
        ELSE IdEntry(H[node].id) \in blocking.blockingCpuNodeIds

\* The ids of the nodes of which that predicate holds
firstPaintIds(H, data, fcpTs, blocking) ==
  {H[n].id : n \in {m \in DOMAIN H : firstPaintPredicate(H, data, fcpTs, blocking, m)}}

\* getFirstPaintBasedGraph(dependencyGraph, fcpTs, blockingScriptFilter, cpuNodeFilter)
getFirstPaintBasedGraph(H, data, dependencyGraph, fcpTs, filterName, cpuFilter) ==
  cloneWithRelationships(H, dependencyGraph,
    [given |-> TRUE,
     ids |-> firstPaintIds(H, data, fcpTs,
               getBlockingCpuData(H, data, dependencyGraph, fcpTs, filterName,
                                  cpuFilter))])

\* getOptimisticGraph(dependencyGraph, traceOfTab), fcpTs being
\* traceOfTab.timestamps.firstContentfulPaint
getOptimisticGraph(H, data, dependencyGraph, fcpTs) ==
  getFirstPaintBasedGraph(H, data, dependencyGraph, fcpTs, "optimistic", NoCpuFilter)

\* getPessimisticGraph(dependencyGraph, traceOfTab)
getPessimisticGraph(H, data, dependencyGraph, fcpTs) ==
  getFirstPaintBasedGraph(H, data, dependencyGraph, fcpTs, "pessimistic", NoCpuFilter)

----------------------------------------------------------------------------
(* The operations as steps.  ret records the last call: its name, receiver *)
(* and argument, how it ended and what it returned.                        *)

Call(op, node, arg, status, value) ==
  [op |-> op, node |-> node, arg |-> arg, status |-> status, value |-> value]

Init ==
  /\ heap = [o \in Nodes |-> BaseNode(o)]
  /\ ret = Call("new", 0, 0, "returned", 0)

\* A call that ends as r says: r.heap is the heap it leaves
Returns(op, node, arg, r) ==
  /\ heap' = r.heap
  /\ ret' = Call(op, node, arg, r.status, r.value)

\* a.addDependency(b); value keeps the edge lists as they were before the call
AddDependency(a, b) ==
  /\ Includes(heap[a].dependencies, b) \/ NumEdges(heap) < MaxEdges
  /\ heap' = addDependency(Orig(heap), a, b)
  /\ ret' = Call("addDependency", a, b, "returned", Orig(heap))

\* b.addDependent(a)
AddDependent(b, a) ==
  /\ Includes(heap[a].dependencies, b) \/ NumEdges(heap) < MaxEdges
  /\ heap' = addDependent(Orig(heap), b, a)
  /\ ret' = Call("addDependent", b, a, "returned", Orig(heap))

\* a.removeDependency(b).  value tells whether the call before was
\* a.addDependency(b) with the same pair, and then keeps the edge lists as they
\* were before that addDependency call.
RemoveDependency(a, b) ==
  /\ heap' = removeDependency(Orig(heap), a, b)
  /\ ret' = Call("removeDependency", a, b, "returned",
                 IF ret.op = "addDependency" /\ ret.node = a /\ ret.arg = b
                   THEN [afterAdd |-> TRUE, before |-> ret.value]
                   ELSE [afterAdd |-> FALSE, before |-> <<>>])

\* b.removeDependent(a)
RemoveDependent(b, a) ==
  /\ heap' = removeDependent(Orig(heap), b, a)
  /\ ret' = Call("removeDependent", b, a, "returned", 0)

\* n.removeAllDependencies(); value keeps the edge lists as they were before
\* the call
RemoveAllDependencies(n) ==
  /\ heap' = removeAllDependencies(Orig(heap), n)
  /\ ret' = Call("removeAllDependencies", n, 0, "returned", Orig(heap))

Mutate ==
  \/ \E a \in Nodes, b \in Nodes : AddDependency(a, b)
  \/ \E a \in Nodes, b \in Nodes : AddDependent(b, a)
  \/ \E a \in Nodes, b \in Nodes : RemoveDependency(a, b)
  \/ \E a \in Nodes, b \in Nodes : RemoveDependent(b, a)
  \/ \E n \in Nodes : RemoveAllDependencies(n)

Next == Mutate

Spec == Init /\ [][Next]_vars

----------------------------------------------------------------------------
(* Queries on a graph that addDependency calls have built.  The graph is   *)
(* any that a sequence of at most MaxInsertions calls builds (any pairs,   *)
(* in any order); a query is then made on it.                              *)

\* The heaps that at most max calls a.addDependency(b), on any pairs of nodes
\* and in any order, make of the nodes as constructed
Built(max) ==
  LET RECURSIVE Grow(_)
      Grow(k) ==
        IF k = 0 THEN {[o \in Nodes |-> BaseNode(o)]}
        ELSE LET G == Grow(k - 1)
             IN  G \cup {addDependency(H, a, b) : H \in G, a \in Nodes, b \in Nodes}
  IN  Grow(max)

InitGraph ==
  /\ heap \in Built(MaxInsertions)
  /\ ret = Call("new", 0, 0, "returned", 0)

\* No query has been made on the graph yet
Fresh == ret.op = "new"

\* BaseNode.hasCycle(n, d)
HasCycle(n, d) ==
  /\ Fresh
  /\ heap' = heap
  /\ ret' = Call("hasCycle", n, d, "returned", hasCycle(heap, n, d))

\* n.traverse(callback, fn); value is the sequence of callbacks made
Traverse(n, fn) ==
  /\ Fresh
  /\ heap' = heap
  /\ ret' = Call("traverse", n, fn, "returned", traverse(heap, n, fn))

\* n.cloneWithRelationships(predicate); the clones stay in the heap
CloneWithRelationships(n, predicate) ==
  /\ Fresh
  /\ Returns("cloneWithRelationships", n, predicate,
             cloneWithRelationships(heap, n, predicate))

\* Graphs to clone: those of one addDependency call less, with node 1 flagged
\* as the main document
InitClone ==
  /\ \E H \in Built(MaxInsertions - 1) : heap = setIsMainDocument(H, 1, TRUE)
  /\ ret = Call("new", 0, 0, "returned", 0)

NextClone == \E n \in Nodes, predicate \in Predicates : CloneWithRelationships(n, predicate)

SpecClone == InitClone /\ [][NextClone]_vars

NextHasCycle == \E n \in Nodes, d \in Directions : HasCycle(n, d)

SpecHasCycle == InitGraph /\ [][NextHasCycle]_vars

NextTraverse == \E n \in Nodes, fn \in NextNodeFns : Traverse(n, fn)

SpecTraverse == InitGraph /\ [][NextTraverse]_vars

----------------------------------------------------------------------------
(* Graph notions the properties are stated with                            *)

Succ(H, fn, n) == Range(getNextNodes(H, fn, n))

\* The nodes reachable from the set S along fn-edges (S included)
Reach(H, fn, S) ==
  LET RECURSIVE Grow(_)
      Grow(R) == LET R1 == R \cup UNION {Succ(H, fn, n) : n \in R}
                 IN  IF R1 = R THEN R ELSE Grow(R1)
  IN  Grow(S)

\* n lies on a cycle of fn-edges
OnCycle(H, fn, n) == n \in Reach(H, fn, Succ(H, fn, n))

\* Some cycle of fn-edges can be reached from n
CycleReachable(H, fn, n) == \E m \in Reach(H, fn, {n}) : OnCycle(H, fn, m)

\* The nodes connected to n by edges taken in either direction (n included)
Component(H, n) ==
  LET RECURSIVE Grow(_)
      Grow(R) == LET R1 == R \cup UNION {Succ(H, "dependents", m) \cup
                                          Succ(H, "dependencies", m) : m \in R}
                 IN  IF R1 = R THEN R ELSE Grow(R1)
  IN  Grow({n})

\* The graph n belongs to is acyclic and exactly one of its nodes has no
\* dependencies
SinglyRootedDAG(H, n) ==
  LET C == Component(H, n)
  IN  /\ \A m \in C : ~OnCycle(H, "dependencies", m)
      /\ Cardinality({m \in C : Len(H[m].dependencies) = 0}) = 1

\* The dependency edges among the objects of S, as pairs of ids
EdgeIds(H, S) ==
  {<<H[a].id, H[b].id>> : a \in S, b \in S} \cap
  UNION {{<<H[a].id, H[H[a].dependencies[i]].id>> : i \in 1..Len(H[a].dependencies)}
           : a \in S}

Ids(H, S) == {H[o].id : o \in S}

----------------------------------------------------------------------------
(* The read-only operations together, on graphs of one addDependency call  *)
(* less (every operation is tried on every graph).                         *)

\* n.getRootNode(); the call does not return when the first dependencies lead
\* round a cycle
GetRootNode(n) ==
  /\ Fresh
  /\ heap' = heap
  /\ ret' = Call("getRootNode", n, 0,
                 IF getRootNode(heap, n) = Undefined THEN "hang" ELSE "returned",
                 getRootNode(heap, n))

\* The page of the inputs: node 1 is the main document, node 2 a script it
\* loads, node 3 the task that evaluates the script and may paint, every other
\* node a later task that evaluates the script too, parses and lays out.
PageData(docEnd, docPriority, scriptEnd, initiatorType, paintStart, paints) ==
  [id \in Nodes |->
     CASE id = 1 -> NetworkNode(docEnd, "doc", docPriority, "parser")
       [] id = 2 -> NetworkNode(scriptEnd, "a.js", TRUE, initiatorType)
       [] id = 3 -> CPUNode(paintStart, {"a.js"}, FALSE,
                            IF paints THEN <<"Paint">> ELSE <<>>)
       [] OTHER  -> CPUNode(2, {"a.js"}, TRUE, <<"ParseHTML">>)]

\* Inputs of the first-paint operations: the first contentful paint is at 2;
\* the document ends before or after it and has render-blocking priority or
\* not, the script ends before or after it and is or is not injected by a
\* script, the task that evaluates it starts before or after it and paints or
\* not.
FcpInputs ==
  [fcpTs : {2}, docEnd : {1, 3}, docPriority : BOOLEAN, scriptEnd : {1, 3},
   initiatorType : {"script", "parser"}, paintStart : {1, 3}, paints : BOOLEAN]

\* The nodes' data of an input
Data(in) ==
  PageData(in.docEnd, in.docPriority, in.scriptEnd, in.initiatorType,
           in.paintStart, in.paints)

\* What a call returned, without the addresses of the clones: how it ended,
\* the id of the node returned, and the ids, main documents and dependency
\* edges of the graph returned
Summary(H, status, value) ==
  IF status # "returned" THEN [status |-> status]
  ELSE LET S == Component(H, value)
       IN  [status |-> status, id |-> H[value].id, ids |-> Ids(H, S),
            mains |-> {H[o].id : o \in {c \in S : H[c].isMainDocument}},
            edges |-> EdgeIds(H, S)]

\* LanternFirstContentfulPaint.getBlockingCpuData(n, fcpTs, filter, cpuFilter)
GetBlockingCpuData(n, in, filterName, cpuFilter) ==
  /\ Fresh
  /\ heap' = heap
  /\ ret' = Call("getBlockingCpuData", n,
                 [in |-> in, filter |-> filterName, cpuFilter |-> cpuFilter],
                 "returned",
                 getBlockingCpuData(heap, Data(in), n, in.fcpTs, filterName, cpuFilter))

\* LanternFirstContentfulPaint.getFirstPaintBasedGraph(n, fcpTs, filter, cpuFilter)
GetFirstPaintBasedGraph(n, in, filterName, cpuFilter) ==
  /\ Fresh
  /\ Returns("getFirstPaintBasedGraph", n,
             [in |-> in, filter |-> filterName, cpuFilter |-> cpuFilter],
             getFirstPaintBasedGraph(heap, Data(in), n, in.fcpTs, filterName,
                                     cpuFilter))

\* The second estimate graph is built right after the first, from the same
\* node and trace
SecondAfter(op, n, in) ==
  /\ ret.op = op /\ ret.node = n /\ ret.arg = in
  /\ ret.value.first

\* An estimate call that ends as r says.  value holds the graph returned,
\* whether it was the first of the two estimates, the heap before the first of
\* them, and the summary of the estimate built before it (of itself, if it is
\* the first).
Estimate(op, n, in, r) ==
  /\ heap' = r.heap
  /\ ret' = Call(op, n, in, r.status,
                 [graph |-> r.value, first |-> Fresh,
                  before |-> IF Fresh THEN heap ELSE ret.value.before,
                  other |-> IF Fresh THEN Summary(r.heap, r.status, r.value)
                                     ELSE Summary(heap, ret.status, ret.value.graph)])

\* LanternFirstContentfulPaint.getOptimisticGraph(n, traceOfTab)
GetOptimisticGraph(n, in) ==
  /\ Fresh \/ SecondAfter("getPessimisticGraph", n, in)
  /\ Estimate("getOptimisticGraph", n, in,
              getOptimisticGraph(heap, Data(in), n, in.fcpTs))

\* LanternFirstContentfulPaint.getPessimisticGraph(n, traceOfTab)
GetPessimisticGraph(n, in) ==
  /\ Fresh \/ SecondAfter("getOptimisticGraph", n, in)
  /\ Estimate("getPessimisticGraph", n, in,
              getPessimisticGraph(heap, Data(in), n, in.fcpTs))

InitReadOnly ==
  /\ \E H \in Built(MaxInsertions - 1) : heap = setIsMainDocument(H, 1, TRUE)
  /\ ret = Call("new", 0, 0, "returned", 0)

\* A cpuFilter that holds of every node
AnyCpu == [given |-> TRUE, ids |-> Nodes]

\* The inputs tried here: the document, of render-blocking priority, still
\* loading at the first contentful paint, the script loaded and the painting
\* task started before it; the two estimates differ when the script is
\* injected by a script.
ReadOnlyInputs ==
  {in \in FcpInputs : /\ in.docEnd = 3 /\ in.docPriority /\ in.scriptEnd = 1
                      /\ in.paintStart = 1 /\ in.paints}

\* The predicates tried here: none, and those that select no node, one node
\* or every node
ReadOnlyPredicates == {p \in Predicates : Cardinality(p.ids) \in {0, 1, NumNodes}}

NextReadOnly ==
  \/ \E n \in Nodes, d \in Directions : HasCycle(n, d)
  \/ \E n \in Nodes, fn \in NextNodeFns : Traverse(n, fn)
  \/ \E n \in Nodes : GetRootNode(n)
  \/ \E n \in Nodes, predicate \in ReadOnlyPredicates :
       CloneWithRelationships(n, predicate)
  \/ \E n \in Nodes, in \in ReadOnlyInputs, f \in NetworkFilters :
       GetBlockingCpuData(n, in, f, AnyCpu)
  \/ \E n \in Nodes, in \in ReadOnlyInputs, f \in NetworkFilters :
       GetFirstPaintBasedGraph(n, in, f, AnyCpu)
  \/ \E n \in Nodes, in \in ReadOnlyInputs : GetOptimisticGraph(n, in)
  \/ \E n \in Nodes, in \in ReadOnlyInputs : GetPessimisticGraph(n, in)

SpecReadOnly == InitReadOnly /\ [][NextReadOnly]_vars

\* No edge list of the nodes holds the same node twice
NoDuplicates ==
  \A n \in Nodes :
    /\ Cardinality(Range(heap[n].dependencies)) = Len(heap[n].dependencies)
    /\ Cardinality(Range(heap[n].dependents)) = Len(heap[n].dependents)

\* C1: edge symmetry: in every reachable state, A is in B's dependents iff B is
\* in A's dependencies, for all nodes A and B (A = B included).
C1_EdgeSymmetry ==
  \A a \in Nodes, b \in Nodes :
    Includes(heap[b].dependents, a) <=> Includes(heap[a].dependencies, b)

\* C1 witness: removeAllDependencies has run and the graph left holds a node
\* that depends on itself and an edge between two different nodes.
C1_Witness ==
  /\ ret.op = "removeAllDependencies"
  /\ \E a \in Nodes : Includes(heap[a].dependencies, a)
  /\ \E a \in Nodes, b \in Nodes : a # b /\ Includes(heap[a].dependencies, b)

\* C2: hasCycle reports every cycle that can be reached from the start node in
\* the direction asked for, and with 'both' every cycle of either direction.
C2_DetectsEveryCycle ==
  ret.op = "hasCycle" =>
    LET found == \E fn \in NextNodeFns :
                   /\ ret.arg \in {fn, "both"}
                   /\ CycleReachable(heap, fn, ret.node)
    IN  found => ret.value = TRUE

\* C3: hasCycle answers false when no cycle can be reached from the start node
\* in the direction(s) asked for.
C3_NoFalseCycle ==
  ret.op = "hasCycle" =>
    LET found == \E fn \in NextNodeFns :
                   /\ ret.arg \in {fn, "both"}
                   /\ CycleReachable(heap, fn, ret.node)
    IN  ~found => ret.value = FALSE


\* C3 witness: a graph without a cycle in which node 3 is reached by two
\* paths (1 needs 2 and 3, 2 needs 3), searched from node 1 along the
\* dependencies: node 2 is entered after node 3 was backtracked, node 3 is
\* met again, and the answer is false.
C3_Witness ==
  /\ ret.op = "hasCycle" /\ ret.node = 1 /\ ret.arg = "dependencies"
  /\ ret.value = FALSE
  /\ heap[1].dependencies = <<2, 3>>
  /\ heap[2].dependencies = <<3>> /\ heap[3].dependencies = <<>>

\* How often node n is called back in a sequence of callbacks
TimesCalled(calls, n) == Cardinality({i \in 1..Len(calls) : calls[i][1] = n})

\* C4: traverse calls back every node reachable from the start node through
\* getNextNodes exactly once, and no other node.
C4_VisitsReachableOnce ==
  ret.op = "traverse" =>
    \A n \in Nodes :
      TimesCalled(ret.value, n) =
        IF n \in Reach(heap, ret.arg, {ret.node}) THEN 1 ELSE 0

\* C4 witness: a traversal of a graph with a cycle (1 and 2 need each other)
\* in which node 3 is reachable by two paths: every node is called back once.
C4_Witness ==
  /\ ret.op = "traverse" /\ ret.node = 1 /\ ret.arg = "dependents"
  /\ heap[1].dependents = <<2, 3>> /\ heap[2].dependents = <<1, 3>>
  /\ Len(ret.value) = 3

\* What the original graph of a clone call is, and what came back
CloneCall == ret.op = "cloneWithRelationships"

\* The objects of the graph the call returned
ClonedGraph == Component(heap, ret.value)

\* The nodes the predicate of the call selects in the graph of the calling
\* node, with all their transitive dependencies
Retained ==
  IF ret.arg.given
    THEN Reach(heap, "dependencies",
               {n \in Component(Orig(heap), ret.node) : heap[n].id \in ret.arg.ids})
    ELSE Component(Orig(heap), ret.node)

\* C5: without a predicate, or with one that holds of every node, the clone of
\* a singly-rooted DAG has the same ids, node count, main-document flags and
\* dependency edges as the original and shares no node object with it.
C5_FullCloneMatches ==
  (/\ CloneCall
   /\ ~ret.arg.given \/ ret.arg.ids = Nodes
   /\ SinglyRootedDAG(Orig(heap), ret.node)) =>
    /\ ret.status = "returned"
    /\ LET original == Component(Orig(heap), ret.node)
       IN  /\ ClonedGraph \cap Nodes = {}
           /\ Ids(heap, ClonedGraph) = Ids(heap, original)
           /\ Cardinality(ClonedGraph) = Cardinality(original)
           /\ \A c \in ClonedGraph : \A o \in original :
                 heap[c].id = heap[o].id =>
                   /\ heap[c].isMainDocument = heap[o].isMainDocument
                   /\ Len(heap[c].dependencies) = Len(heap[o].dependencies)
           /\ EdgeIds(heap, ClonedGraph) = EdgeIds(heap, original)

\* C5 witness: the graph in which 2 needs 1 (the main document) and 3 needs
\* both was cloned from node 3 without a predicate.
C5_Witness ==
  /\ CloneCall /\ ~ret.arg.given /\ ret.node = 3 /\ ret.status = "returned"
  /\ heap[3].dependencies = <<2, 1>> /\ heap[2].dependencies = <<1>>
  /\ heap[1].dependencies = <<>>
  /\ Cardinality(ClonedGraph) = 3

\* C6: with a predicate, on a singly-rooted DAG, the clone returned holds
\* exactly the selected nodes and their transitive dependencies, and exactly
\* the original dependency edges between two of those.
C6_PredicateCloneRetains ==
  (/\ CloneCall /\ ret.arg.given
   /\ SinglyRootedDAG(Orig(heap), ret.node)
   /\ ret.node \in Retained) =>
    /\ ret.status = "returned"
    /\ ClonedGraph \cap Nodes = {}
    /\ Ids(heap, ClonedGraph) = Ids(heap, Retained)
    /\ Cardinality(ClonedGraph) = Cardinality(Retained)
    /\ EdgeIds(heap, ClonedGraph) = EdgeIds(heap, Retained)

\* C6 witness: in the chain 1 <- 2 <- 3 only the middle node 2 is selected and
\* the call was made on node 1: the clone came back with nodes 1 and 2, without
\* node 3.
C6_Witness ==
  /\ CloneCall /\ ret.arg.given /\ ret.arg.ids = {2} /\ ret.status = "returned"
  /\ ret.node = 1
  /\ heap[3].dependencies = <<2>>
  /\ heap[2].dependencies = <<1>> /\ heap[1].dependencies = <<>>
  /\ Cardinality(ClonedGraph) = 2

\* C7: on a singly-rooted DAG the call throws 'Cloned graph missing node', with
\* no value, exactly when a predicate is given that selects neither the calling
\* node nor a node that transitively depends on it; otherwise it returns the
\* clone that has the id of the calling node.
C7_MissingNodeExactly ==
  (CloneCall /\ SinglyRootedDAG(Orig(heap), ret.node)) =>
    LET unselected ==
          /\ ret.arg.given
          /\ \A n \in Reach(Orig(heap), "dependents", {ret.node}) :
                heap[n].id \notin ret.arg.ids
    IN  IF unselected
          THEN ret.status = "Cloned graph missing node" /\ ret.value = Undefined
          ELSE /\ ret.status = "returned"
               /\ ret.value \notin Nodes
               /\ heap[ret.value].id = heap[ret.node].id

\* C7 witness: in the chain 1 <- 2 <- 3 the predicate selects only node 2 and
\* the call was made on node 3, which is then missing from the clone.
C7_Witness ==
  /\ CloneCall /\ ret.node = 3 /\ ret.arg.given /\ ret.arg.ids = {2}
  /\ heap[3].dependencies = <<2>> /\ heap[2].dependencies = <<1>>
  /\ heap[1].dependencies = <<>>
  /\ ret.status = "Cloned graph missing node"


\* C9 as claimed: a.removeDependency(b) right after a.addDependency(b) leaves
\* every edge list as it was before the addDependency call, in any state.
C9_AddThenRemoveRestores ==
  (ret.op = "removeDependency" /\ ret.value.afterAdd) =>
    Orig(heap) = ret.value.before

\* C9 amended: the same, provided b was not yet a dependency of a when
\* addDependency was called.
C9_AddThenRemoveRestoresNewEdge ==
  (/\ ret.op = "removeDependency" /\ ret.value.afterAdd
   /\ ~Includes(ret.value.before[ret.node].dependencies, ret.arg)) =>
    Orig(heap) = ret.value.before

\* C9 witness: a new edge was added and removed again between two nodes whose
\* lists already held other entries.
C9_Witness ==
  /\ ret.op = "removeDependency" /\ ret.value.afterAdd
  /\ ret.node # ret.arg
  /\ ~Includes(ret.value.before[ret.node].dependencies, ret.arg)
  /\ Len(ret.value.before[ret.node].dependencies) > 0
  /\ Len(ret.value.before[ret.arg].dependents) > 0

\* One call of C10: adding an edge that exists, or removing one that does
\* not, changes no edge list.
C10_Step ==
  /\ (ret'.op = "addDependency" /\ Includes(heap[ret'.node].dependencies, ret'.arg))
       => Orig(heap') = Orig(heap)
  /\ (ret'.op = "addDependent" /\ Includes(heap[ret'.arg].dependencies, ret'.node))
       => Orig(heap') = Orig(heap)
  /\ (ret'.op = "removeDependency" /\ ~Includes(heap[ret'.node].dependencies, ret'.arg))
       => Orig(heap') = Orig(heap)
  /\ (ret'.op = "removeDependent" /\ ~Includes(heap[ret'.arg].dependencies, ret'.node))
       => Orig(heap') = Orig(heap)

\* C10: addDependency / addDependent of an existing edge and removeDependency /
\* removeDependent of an absent edge change nothing, and no edge list ever
\* holds the same node twice.
C10_Idempotent == [][C10_Step]_vars /\ []NoDuplicates

\* C10 witness: addDependency was called for an edge that was there already,
\* in a graph where the node has another dependency too.
C10_Witness ==
  /\ ret.op = "addDependency"
  /\ Includes(ret.value[ret.node].dependencies, ret.arg)
  /\ Len(heap[ret.node].dependencies) = 2


\* The calls that C8 says are read-only
ReadOnlyOps ==
  {"traverse", "hasCycle", "getRootNode", "cloneWithRelationships",
   "getBlockingCpuData", "getFirstPaintBasedGraph", "getOptimisticGraph",
   "getPessimisticGraph"}

\* The summary of a call that ends as r says
SummaryOf(r) == Summary(r.heap, r.status, r.value)

\* The estimate a call builds when it is made on heap H
EstimateOn(H, op, n, in) ==
  SummaryOf(IF op = "getOptimisticGraph"
              THEN getOptimisticGraph(H, Data(in), n, in.fcpTs)
              ELSE getPessimisticGraph(H, Data(in), n, in.fcpTs))

\* The estimate built second is the one the same call builds from the graph
\* as it was before the first estimate was built
C8_SameInEitherOrder ==
  (ret.op \in {"getOptimisticGraph", "getPessimisticGraph"} /\ ~ret.value.first) =>
    Summary(heap, ret.status, ret.value.graph) =
      EstimateOn(ret.value.before, ret.op, ret.node, ret.arg)

\* C8: no read-only call, whether it returns or throws, changes the id, the
\* main-document flag or an edge list of a node of the graph it is given; so
\* either estimate graph is the same whether it is built first or second.
C8_ReadOnly ==
  /\ [][ret'.op \in ReadOnlyOps => Orig(heap') = Orig(heap)]_vars
  /\ []C8_SameInEitherOrder

\* C8 witness: the pessimistic graph was built right after the optimistic one
\* from the main document, on which the script depends; the task evaluating
\* the script is not in the graph.  Both calls returned, their graphs differ,
\* and the clones of both are in the heap beside the original nodes.
C8_Witness ==
  /\ ret.op = "getPessimisticGraph" /\ ~ret.value.first
  /\ ret.status = "returned" /\ ret.node = 1
  /\ heap[2].dependencies = <<1>> /\ heap[3].dependents = <<>>
  /\ heap[3].dependencies = <<>>
  /\ ret.value.other.status = "returned"
  /\ ret.value.other # Summary(heap, ret.status, ret.value.graph)
  /\ Cardinality(DOMAIN heap) = NumNodes + 3

----------------------------------------------------------------------------
(* Root discovery                                                          *)

\* The nodes of the graph of the getRootNode call whose own getRootNode
\* returns another node than the call did
OtherRoots ==
  {m \in Component(heap, ret.node) : getRootNode(heap, m) # ret.value}

\* C11 as claimed: in a connected graph without a cycle, getRootNode returns
\* the same node for every node of the graph.
C11_RootPathIndependent ==
  (/\ ret.op = "getRootNode"
   /\ \A m \in Component(heap, ret.node) : ~OnCycle(heap, "dependencies", m)) =>
    OtherRoots = {}

\* C11 amended: the same, provided exactly one node of the graph has no
\* dependencies; the root returned is that node, whatever the order of the
\* dependency lists.
C11_RootPathIndependentSingleRoot ==
  (ret.op = "getRootNode" /\ SinglyRootedDAG(heap, ret.node)) =>
    /\ ret.status = "returned"
    /\ Len(heap[ret.value].dependencies) = 0
    /\ OtherRoots = {}

\* C11 witness: getRootNode was called on node 3, which needs 2 and 1 in that
\* order, 2 needing 1: the walk goes 3, 2, 1 and returns node 1.
C11_Witness ==
  /\ ret.op = "getRootNode" /\ ret.node = 3 /\ ret.value = 1
  /\ heap[3].dependencies = <<2, 1>> /\ heap[2].dependencies = <<1>>

----------------------------------------------------------------------------
(* The two estimate graphs                                                 *)

\* The second of the two estimate calls has just ended
BothEstimates ==
  ret.op \in {"getOptimisticGraph", "getPessimisticGraph"} /\ ~ret.value.first

\* The summaries of the optimistic and of the pessimistic graph of the two
\* calls
OptimisticEstimate ==
  IF ret.op = "getOptimisticGraph"
    THEN Summary(heap, ret.status, ret.value.graph) ELSE ret.value.other

PessimisticEstimate ==
  IF ret.op = "getPessimisticGraph"
    THEN Summary(heap, ret.status, ret.value.graph) ELSE ret.value.other

\* The graph the estimates were built from is well-formed: it has no cycle
\* and a single root, the main document
WellFormed(H, n) ==
  /\ SinglyRootedDAG(H, n)
  /\ H[getRootNode(H, n)].isMainDocument

\* The graph of node n holds a network node with render-blocking priority
\* that a script initiated
HasScriptInitiated(H, data, n) ==
  \E m \in Component(H, n) :
    /\ data[H[m].id].type = NETWORK
    /\ data[H[m].id].hasRenderBlockingPriority
    /\ data[H[m].id].initiatorType = "script"

\* C12: built from a well-formed graph that holds a render-blocking network
\* node initiated by a script, the optimistic graph has at most as many nodes
\* as the pessimistic graph, whenever both builders return.
C12_OptimisticNotLarger ==
  (/\ BothEstimates
   /\ WellFormed(ret.value.before, ret.node)
   /\ HasScriptInitiated(ret.value.before, Data(ret.arg), ret.node)
   /\ OptimisticEstimate.status = "returned"
   /\ PessimisticEstimate.status = "returned") =>
    Cardinality(OptimisticEstimate.ids) <= Cardinality(PessimisticEstimate.ids)

----------------------------------------------------------------------------
(* The classifier and the builder on every input: graphs of two             *)
(* addDependency calls less than InitGraph's, node 1 the main document.     *)

InitFirstPaint ==
  /\ \E H \in Built(MaxInsertions - 2) : heap = setIsMainDocument(H, 1, TRUE)
  /\ ret = Call("new", 0, 0, "returned", 0)

\* The inputs tried here: the task that evaluates the script starts before
\* the first contentful paint (a task that starts after it is like one that
\* is not in the graph)
FirstPaintInputs == {in \in FcpInputs : in.paintStart = 1}

\* The cpuFilter arguments tried: none, or one that holds of every node
CpuFilters == {NoCpuFilter, AnyCpu}

NextFirstPaint ==
  \/ \E n \in Nodes, in \in FirstPaintInputs, f \in NetworkFilters,
        cpuFilter \in CpuFilters :
       GetBlockingCpuData(n, in, f, cpuFilter)
  \/ \E n \in Nodes, in \in FirstPaintInputs, f \in NetworkFilters,
        cpuFilter \in CpuFilters :
       GetFirstPaintBasedGraph(n, in, f, cpuFilter)

SpecFirstPaint == InitFirstPaint /\ [][NextFirstPaint]_vars

----------------------------------------------------------------------------
(* The classifier                                                          *)

\* The call that has just ended is one of the classifier
ClassifierCall == ret.op = "getBlockingCpuData"

\* The nodes the classifier is given: those graph.traverse reaches
Classified == Reach(heap, "dependents", {ret.node})

\* The record of node n in the page of the call
Record(n) == Data(ret.arg.in)[heap[n].id]

\* The CPU nodes given that start by fcpTs and evaluate url
Evaluators(url) ==
  {c \in Classified : /\ Record(c).type = CPU
                      /\ Record(c).startTime <= ret.arg.in.fcpTs
                      /\ url \in Record(c).evaluateScriptFor}

\* Those of them that start earliest
EarliestEvaluators(url) ==
  {c \in Evaluators(url) :
     \A e \in Evaluators(url) : Record(c).startTime <= Record(e).startTime}

\* C13: the url of every network node that ended by fcpTs and passes the
\* filter is possibly blocking; it is actually blocking exactly when some CPU
\* node that started by fcpTs evaluates it, and then the id of the earliest
\* such CPU node is in blockingCpuNodeIds.
C13_EvaluatorIdIsBlocking ==
  ClassifierCall =>
    \A n \in Classified :
      (/\ Record(n).type = NETWORK
       /\ Record(n).endTime <= ret.arg.in.fcpTs
       /\ networkFilter(ret.arg.filter, Record(n))) =>
        /\ Record(n).url \in ret.value.possiblyRenderBlockingScriptUrls
        /\ IF Evaluators(Record(n).url) = {}
             THEN Record(n).url \notin ret.value.actuallyRenderBlockingScriptUrls
             ELSE /\ Record(n).url \in ret.value.actuallyRenderBlockingScriptUrls
                  /\ \E c \in EarliestEvaluators(Record(n).url) :
                        IdEntry(heap[c].id) \in ret.value.blockingCpuNodeIds

----------------------------------------------------------------------------
(* The builder                                                             *)

\* The call that has just ended is one of the builder
BuilderCall == ret.op = "getFirstPaintBasedGraph"

\* The CPU nodes given that start by fcpTs, in the classifier's order
SortedCpuNodes ==
  earlyCpuNodes(Orig(heap), Data(ret.arg.in), ret.node, ret.arg.in.fcpTs)

\* What the classifier returns on the graph of the call
Classification ==
  getBlockingCpuData(Orig(heap), Data(ret.arg.in), ret.node, ret.arg.in.fcpTs,
                     ret.arg.filter, ret.arg.cpuFilter)

\* c is the first task, in the classifier's order, that evaluates an actually
\* render-blocking url
FirstEvaluator(c) ==
  LET EvaluatesUrl(url) ==
        LET Evaluates(n) == url \in Record(n).evaluateScriptFor
        IN  Find(SelectSeq(SortedCpuNodes, Evaluates)) = c
  IN  \E url \in Classification.actuallyRenderBlockingScriptUrls : EvaluatesUrl(url)

\* c is the first task, in the classifier's order, that performed layout, or
\* that has a child event of the name given
FirstLayout(c) ==
  LET DidLayout(n) == Record(n).didPerformLayout
  IN  Find(SelectSeq(SortedCpuNodes, DidLayout)) = c

FirstWithEvent(c, name) ==
  LET HasEvent(n) == Includes(Record(n).childEvents, name)
  IN  Find(SelectSeq(SortedCpuNodes, HasEvent)) = c

\* The classifier is to mark CPU node c as blocking
MarkedBlocking(c) ==
  \/ FirstEvaluator(c)
  \/ FirstLayout(c) \/ FirstWithEvent(c, "Paint") \/ FirstWithEvent(c, "ParseHTML")
  \/ /\ ret.arg.cpuFilter.given /\ heap[c].id \in ret.arg.cpuFilter.ids
     /\ Includes(SortedCpuNodes, c)

\* The predicate of the call holds of node c
Selected(c) ==
  firstPaintPredicate(Orig(heap), Data(ret.arg.in), ret.arg.in.fcpTs,
                      Classification, c)

\* C14: the predicate of the builder selects a CPU node exactly when the
\* classifier is to mark it blocking (first task evaluating an actually
\* blocking url, first layout, first Paint, first ParseHTML, or cpuFilter); so
\* the graph returned holds the evaluation task of every actually blocking
\* script.
C14_CpuSelectedIffBlocking ==
  BuilderCall =>
    /\ \A c \in Nodes : Record(c).type = CPU => (Selected(c) <=> MarkedBlocking(c))
    /\ ret.status = "returned" =>
         \A c \in Nodes : (Record(c).type = CPU /\ FirstEvaluator(c)) =>
                             heap[c].id \in Ids(heap, ClonedGraph)

\* n is a network node that ended after fcpTs and is not the main document
LateNetwork(n) ==
  /\ Record(n).type = NETWORK
  /\ Record(n).endTime > ret.arg.in.fcpTs
  /\ ~heap[n].isMainDocument

\* C15 as claimed: the graph the builder returns holds no network node that
\* ended after fcpTs, the main document excepted.
C15_NoLateNetwork ==
  (BuilderCall /\ ret.status = "returned") =>
    \A n \in Nodes : LateNetwork(n) => heap[n].id \notin Ids(heap, ClonedGraph)

\* C15 amended: the predicate of the builder selects no such node, and the
\* graph returned holds one only if a node that the predicate selects depends
\* on it, directly or through other nodes.
C15_LateNetworkOnlyAsDependency ==
  BuilderCall =>
    /\ \A n \in Nodes : LateNetwork(n) => ~Selected(n)
    /\ ret.status = "returned" =>
         \A n \in Nodes :
           (LateNetwork(n) /\ heap[n].id \in Ids(heap, ClonedGraph)) =>
             \E s \in Nodes : /\ Selected(s)
                              /\ n \in Reach(Orig(heap), "dependencies", {s})

\* C15 witness: the script, which depends on the main document, ended after
\* fcpTs; the builder was called on the main document and returned a graph of
\* the main document alone.
C15_Witness ==
  /\ BuilderCall /\ ret.status = "returned" /\ ret.node = 1
  /\ ret.arg.in.scriptEnd = 3 /\ ret.arg.in.docEnd = 3
  /\ heap[2].dependencies = <<1>> /\ heap[3].dependencies = <<>>
  /\ Ids(heap, ClonedGraph) = {1}

\* C16: called on the main document of a well-formed graph, the builder
\* returns, and the graph it returns holds the main document, whatever the
\* end time and the priority of the main document and whatever the other
\* nodes are.
C16_MainDocumentRetained ==
  (/\ BuilderCall
   /\ WellFormed(Orig(heap), ret.node)
   /\ heap[ret.node].isMainDocument) =>
    /\ ret.status = "returned"
    /\ heap[ret.node].id \in Ids(heap, ClonedGraph)

----------------------------------------------------------------------------
(* Traversal paths                                                         *)

\* The nodes that at most k fn-edges lead to from node s
Within(H, fn, s, k) ==
  LET RECURSIVE Grow(_)
      Grow(j) == IF j = 0 THEN {s}
                 ELSE LET R == Grow(j - 1)
                      IN  R \cup UNION {Succ(H, fn, n) : n \in R}
  IN  Grow(k)

\* The least number of fn-edges that lead from s to t, t being reachable
Distance(H, fn, s, t) ==
  CHOOSE k \in 0..Cardinality(DOMAIN H) :
    /\ t \in Within(H, fn, s, k)
    /\ k = 0 \/ t \notin Within(H, fn, s, k - 1)

\* C17: every traversalPath handed to the callback starts with the node
\* called back, ends with the start node, steps back along getNextNodes edges,
\* and has one node more than the least number of edges from the start node
\* to the node; the callbacks come in non-decreasing order of that number.
C17_ShortestPaths ==
  ret.op = "traverse" =>
    /\ \A i \in 1..Len(ret.value) :
         LET p == ret.value[i]
         IN  /\ p[1] = Visits(ret.value)[i]
             /\ p[Len(p)] = ret.node
             /\ \A k \in 1..(Len(p) - 1) : p[k] \in Succ(heap, ret.arg, p[k + 1])
             /\ Len(p) = Distance(heap, ret.arg, ret.node, p[1]) + 1
    /\ \A i, j \in 1..Len(ret.value) :
         i <= j => Len(ret.value[i]) <= Len(ret.value[j])

\* C17 witness: a traversal from node 1 along the dependents round the cycle
\* 1, 2, 3, in which node 3 is two edges away and node 1 is met again.
C17_Witness ==
  /\ ret.op = "traverse" /\ ret.node = 1 /\ ret.arg = "dependents"
  /\ heap[1].dependents = <<2>> /\ heap[2].dependents = <<3>>
  /\ heap[3].dependents = <<1>>
  /\ ret.value = <<(<<1>>), <<2, 1>>, <<3, 2, 1>>>>

----------------------------------------------------------------------------
(* The loops of hasCycle and traverse, one iteration at a time.  While a    *)
(* call runs, ret.status is "running" and ret.value holds its local          *)
(* variables.                                                               *)

\* The locals of hasCycle before its while loop
hasCycleStart(H, node) ==
  [visited |-> {}, currentPath |-> <<>>, toVisit |-> <<node>>,
   depthAdded |-> [o \in DOMAIN H |-> 0], done |-> FALSE, answer |-> FALSE]

\* A faulty iteration that leaves a node already visited on top of toVisit
hasCycleIteration_Peek(H, direction, s) ==
  LET RECURSIVE Explore(_, _, _, _, _)
      Explore(nodesToExplore, i, toVisit, depthAdded, depth) ==
        IF i > Len(nodesToExplore) THEN [toVisit |-> toVisit, depthAdded |-> depthAdded]
        ELSE IF Includes(toVisit, nodesToExplore[i])
          THEN Explore(nodesToExplore, i + 1, toVisit, depthAdded, depth)
          ELSE Explore(nodesToExplore, i + 1, Append(toVisit, nodesToExplore[i]),
                       [depthAdded EXCEPT ![nodesToExplore[i]] = depth], depth)
      currentNode == s.toVisit[Len(s.toVisit)]
      popped == SubSeq(s.toVisit, 1, Len(s.toVisit) - 1)
      trimmed == IF Len(s.currentPath) > s.depthAdded[currentNode]
                   THEN SubSeq(s.currentPath, 1, s.depthAdded[currentNode])
                   ELSE s.currentPath
      after == Explore(getNextNodes(H, direction, currentNode), 1, popped,
                       s.depthAdded, Len(trimmed) + 1)
  IN  IF Len(s.toVisit) = 0 THEN [s EXCEPT !.done = TRUE, !.answer = FALSE]
      ELSE IF Includes(s.currentPath, currentNode)
        THEN [s EXCEPT !.toVisit = popped, !.done = TRUE, !.answer = TRUE]
      ELSE IF currentNode \in s.visited THEN s
      ELSE [s EXCEPT !.visited = @ \cup {currentNode},
                     !.currentPath = Append(trimmed, currentNode),
                     !.toVisit = after.toVisit,
                     !.depthAdded = after.depthAdded]

\* One test of `while (toVisit.length)` and, if it passes, one run of the
\* loop body: done is set when the function returns, answer is what it
\* returns
hasCycleIteration(H, direction, s) ==
  LET RECURSIVE Explore(_, _, _, _, _)
      Explore(nodesToExplore, i, toVisit, depthAdded, depth) ==
        IF i > Len(nodesToExplore) THEN [toVisit |-> toVisit, depthAdded |-> depthAdded]
        ELSE IF Includes(toVisit, nodesToExplore[i])
          THEN Explore(nodesToExplore, i + 1, toVisit, depthAdded, depth)
          ELSE Explore(nodesToExplore, i + 1, Append(toVisit, nodesToExplore[i]),
                       [depthAdded EXCEPT ![nodesToExplore[i]] = depth], depth)
      currentNode == s.toVisit[Len(s.toVisit)]
      popped == SubSeq(s.toVisit, 1, Len(s.toVisit) - 1)
      trimmed == IF Len(s.currentPath) > s.depthAdded[currentNode]
                   THEN SubSeq(s.currentPath, 1, s.depthAdded[currentNode])
                   ELSE s.currentPath
      after == Explore(getNextNodes(H, direction, currentNode), 1, popped,
                       s.depthAdded, Len(trimmed) + 1)
  IN  IF Len(s.toVisit) = 0 THEN [s EXCEPT !.done = TRUE, !.answer = FALSE]
      ELSE IF Includes(s.currentPath, currentNode)
        THEN [s EXCEPT !.toVisit = popped, !.done = TRUE, !.answer = TRUE]
      ELSE IF currentNode \in s.visited THEN [s EXCEPT !.toVisit = popped]
      ELSE [s EXCEPT !.visited = @ \cup {currentNode},
                     !.currentPath = Append(trimmed, currentNode),
                     !.toVisit = after.toVisit,
                     !.depthAdded = after.depthAdded]

\* The locals of traverse before its while loop
traverseStart(H, self) ==
  [visited |-> {H[self].id}, queue |-> <<(<<self>>)>>, calls |-> <<>>,
   done |-> FALSE]

\* One test of `while (queue.length)` and, if it passes, one run of the loop
\* body
traverseIteration(H, fn, s) ==
  LET RECURSIVE Push(_, _, _, _, _)
      Push(nexts, i, traversalPath, visited, queue) ==
        IF i > Len(nexts) THEN [visited |-> visited, queue |-> queue]
        ELSE IF H[nexts[i]].id \in visited
          THEN Push(nexts, i + 1, traversalPath, visited, queue)
          ELSE Push(nexts, i + 1, traversalPath, visited \cup {H[nexts[i]].id},
                    Append(queue, <<nexts[i]>> \o traversalPath))
      after == Push(getNextNodes(H, fn, Head(s.queue)[1]), 1, Head(s.queue),
                    s.visited, Tail(s.queue))
  IN  IF Len(s.queue) = 0 THEN [s EXCEPT !.done = TRUE]
      ELSE [s EXCEPT !.visited = after.visited, !.queue = after.queue,
                     !.calls = Append(@, Head(s.queue))]

\* hasCycle(n, d) is entered; 'both' begins with the dependents
StartHasCycle(n, d) ==
  /\ Fresh
  /\ heap' = heap
  /\ ret' = Call("hasCycle", n, d, "running",
                 [direction |-> IF d = "both" THEN "dependents" ELSE d,
                  loop |-> hasCycleStart(heap, n)])

\* What the call becomes when an iteration leaves the locals s: it goes on,
\* or goes on with the dependencies when `hasCycle(node, 'dependents') ||`
\* was false, or returns s.answer (the locals stay in ret.value)
AfterHasCycleIteration(s) ==
  IF ~s.done THEN [ret EXCEPT !.value.loop = s]
  ELSE IF ~s.answer /\ ret.arg = "both" /\ ret.value.direction = "dependents"
    THEN [ret EXCEPT !.value = [direction |-> "dependencies",
                                loop |-> hasCycleStart(heap, ret.node)]]
  ELSE [ret EXCEPT !.status = "returned", !.value.loop = s]

\* hasCycle goes through one iteration
StepHasCycle ==
  /\ ret.op = "hasCycle" /\ ret.status = "running"
  /\ heap' = heap
  /\ ret' = AfterHasCycleIteration(
              hasCycleIteration(heap, ret.value.direction, ret.value.loop))

\* n.traverse(callback, fn) is entered
StartTraverse(n, fn) ==
  /\ Fresh
  /\ heap' = heap
  /\ ret' = Call("traverse", n, fn, "running", traverseStart(heap, n))

\* What the call becomes when an iteration leaves the locals s: it goes on,
\* or returns after the callback calls s.calls (the locals stay in ret.value)
AfterTraverseIteration(s) ==
  IF ~s.done THEN [ret EXCEPT !.value = s]
  ELSE [ret EXCEPT !.status = "returned", !.value = s]

\* traverse goes through one iteration
StepTraverse ==
  /\ ret.op = "traverse" /\ ret.status = "running"
  /\ heap' = heap
  /\ ret' = AfterTraverseIteration(traverseIteration(heap, ret.arg, ret.value))

\* Graphs of one addDependency call less than InitGraph's: they include the
\* self-dependency, the cycles and a node reached along two paths
InitRun ==
  /\ heap \in Built(MaxInsertions - 1)
  /\ ret = Call("new", 0, "", "returned", [done |-> TRUE])

NextRun ==
  \/ \E n \in Nodes, d \in Directions : StartHasCycle(n, d)
  \/ StepHasCycle
  \/ \E n \in Nodes, fn \in NextNodeFns : StartTraverse(n, fn)
  \/ StepTraverse

\* The code is synchronous and single-threaded: a call that has been entered
\* keeps running
SpecRun ==
  InitRun /\ [][NextRun]_vars /\ WF_vars(StepHasCycle) /\ WF_vars(StepTraverse)

\* C18: every hasCycle and traverse call that is entered returns, whatever
\* the graph, the start node and the direction (cycles and self-dependencies
\* included), and it returns what the function computes.
C18_RunsToCompletion ==
  /\ [](ret.status = "returned" /\ ret.op = "hasCycle" =>
          ret.value.loop.answer = hasCycle(heap, ret.node, ret.arg))
  /\ [](ret.status = "returned" /\ ret.op = "traverse" =>
          ret.value.calls = traverse(heap, ret.node, ret.arg))
  /\ (ret.status = "running") ~> (ret.status = "returned")

\* C18 witness: hasCycle was called with 'both' on node 3, on which the two
\* mutually dependent nodes 1 and 2 do not depend; it found nothing along the
\* dependents, went round the cycle along the dependencies and returned true.
C18_Witness ==
  /\ ret.op = "hasCycle" /\ ret.status = "returned" /\ ret.arg = "both"
  /\ ret.node = 3 /\ ret.value.loop.answer
  /\ heap[3].dependencies = <<1>> /\ heap[3].dependents = <<>>
  /\ heap[1].dependencies = <<1>>

----------------------------------------------------------------------------
(* Re-wiring when an endpoint has no clone                                  *)

\* The original nodes the second traversal of the last cloneWithRelationships
\* call cloned: those reached from rootNode down the dependents and included
ClonedOriginals(rootNode) ==
  LET order == Visits(traverse(heap, rootNode, "dependents"))
      ids == IF ret.arg.given THEN idsToInclude(heap, rootNode, ret.arg) ELSE {}
  IN  {order[i] : i \in {j \in 1..Len(order) :
                           shouldIncludeNode(heap, ret.arg, ids, order[j])}}

\* Some cloned node of the set has a dependency outside the set
HasUnclonedDependency(cloned) ==
  \E o \in cloned : \E k \in 1..Len(heap[o].dependencies) :
    heap[o].dependencies[k] \notin cloned

\* The last call was a cloneWithRelationships that found a root and in which
\* an included node had a dependency without clone
UnclonedEndpointCall ==
  /\ ret.op = "cloneWithRelationships"
  /\ getRootNode(heap, ret.node) # Undefined
  /\ HasUnclonedDependency(ClonedOriginals(getRootNode(heap, ret.node)))

\* C19: when an included node has an original dependency for which no clone
\* exists, the re-wiring skips that endpoint and the call does not fail: it
\* returns the clone of the calling node.
C19_UnclonedEndpointSkipped ==
  UnclonedEndpointCall /\ ret.node \in ClonedOriginals(getRootNode(heap, ret.node))
    => ret.status = "returned"


----------------------------------------------------------------------------
(* removeAllDependencies                                                    *)

\* The last call was n.removeAllDependencies()
RemovedAll(n) == ret.op = "removeAllDependencies" /\ ret.node = n

\* list without the entries equal to n
Without(list, n) == LET Keep(x) == x # n IN SelectSeq(list, Keep)

\* After n.removeAllDependencies() on the edge lists `before`: n has no
\* dependencies, n is in no dependents list, the dependencies of every other
\* node and the other entries of every dependents list are as before
EdgesOfRemoved(before, n) ==
  /\ heap[n].dependencies = <<>>
  /\ \A o \in Nodes : ~Includes(heap[o].dependents, n)
  /\ \A o \in Nodes \ {n} : heap[o].dependencies = before[o].dependencies
  /\ \A o \in Nodes \ {n} : heap[o].dependents = Without(before[o].dependents, n)

\* C20 as stated: after N.removeAllDependencies(), N has no dependencies, N is
\* in no node's dependents list, and N's own dependents list and all edges
\* between other nodes are as before.
C20_OnlyDependencyEdgesRemoved ==
  \A n \in Nodes : RemovedAll(n) =>
    /\ EdgesOfRemoved(ret.value, n)
    /\ heap[n].dependents = ret.value[n].dependents

\* C20 amended: the same, with N's own dependents list as before except that
\* it loses N when N depended on itself.
C20_OnlyDependencyEdgesRemovedButSelf ==
  \A n \in Nodes : RemovedAll(n) =>
    /\ EdgesOfRemoved(ret.value, n)
    /\ heap[n].dependents = Without(ret.value[n].dependents, n)

\* C20 witness: node 1 depended on nodes 2 and 3, and node 3 on node 1;
\* 1.removeAllDependencies() took node 1 out of the dependents of 2 and 3 and
\* left the edge of 3 on 1.
C20_Witness ==
  /\ RemovedAll(1)
  /\ ret.value[1].dependencies = <<2, 3>> /\ ret.value[1].dependents = <<3>>
  /\ ret.value[2].dependents = <<1>> /\ ret.value[3].dependents = <<1>>
  /\ heap[1].dependencies = <<>> /\ heap[1].dependents = <<3>>
  /\ heap[2].dependents = <<>> /\ heap[3].dependents = <<>>
  /\ heap[3].dependencies = <<1>>
====
